---- MODULE Spec2Model ----
(***************************************************************************)
(* The market pricing and settlement engine of the Slack prediction-market *)
(* bot (src/index.js): users, markets and bets held in PostgreSQL tables,  *)
(* the placeBet operation and the resolve branch of the /predict command.  *)
(* Every await of a handler is a step of its own, so that the steps of two *)
(* handlers in flight interleave as the event loop lets them.              *)
(*                                                                         *)
(* Numbers.  Probabilities are integers in units of 1/Scale, the scale of  *)
(* the DECIMAL(5,4) columns; a probability computed by a division is kept  *)
(* as the pair <<numerator, denominator>> until it is stored, and storing  *)
(* rounds it to the column's scale.  User accuracy is in units of          *)
(* 1/AccScale (DECIMAL(3,2)).                                              *)
(***************************************************************************)
EXTENDS Integers, Sequences, FiniteSets, TLC

\* ------------------------------------------------------------ bounds
MaxTime == 1
MaxOps == 3
NumProcs == 2
MaxFailures == 1
MaxListed == 6

\* ------------------------------------------------- program constants
Scale == 10000
AccScale == 100
StartBankroll == 1000
MinStake == 1
MaxStake == 100

ADMIN_USER_ID == "U08QVDK2Z4L"

\* ------------------------------------------------------------ inputs
Users == {ADMIN_USER_ID, "U2"}
MarketIds == 0..MaxTime
Procs == 1..NumProcs
DesiredAmounts == {10, 150}
Probabilities == {2000, 8200}
Deadlines == 0..MaxTime

VARIABLES users, markets, bets, now, procs, last, nops, nfail, paid, calc

vars == <<users, markets, bets, now, procs, last, nops, nfail, paid, calc>>
db == <<users, markets, bets>>

\* ------------------------------------------------------------ tables
\* A user row.  The last five columns are the leaderboard columns that the
\* second variant of the bot (src/unnamed/part_000) adds to the users table;
\* its resolve branch writes four of them next to the five columns both
\* variants write, and its createMarket counts in markets_created.
NoUser == [exists |-> FALSE, bankroll |-> 0, total_staked |-> 0,
           bets_placed |-> 0, bets_won |-> 0, accuracy |-> 0,
           total_profit |-> 0, biggest_win |-> 0,
           prediction_streak |-> 0, best_streak |-> 0, markets_created |-> 0]

NewUser == [exists |-> TRUE, bankroll |-> StartBankroll, total_staked |-> 0,
            bets_placed |-> 0, bets_won |-> 0, accuracy |-> AccScale \div 2,
            total_profit |-> 0, biggest_win |-> 0,
            prediction_streak |-> 0, best_streak |-> 0, markets_created |-> 0]

NoMarket == [exists |-> FALSE, creator |-> "none", created_at |-> 0, deadline |-> 0,
             resolved |-> FALSE, resolution |-> "null", resolved_at |-> -1,
             probability |-> 0, total_stake |-> 0, active |-> FALSE]

NewMarket(creator, created, deadline) ==
    [exists |-> TRUE, creator |-> creator, created_at |-> created,
     deadline |-> deadline,
     resolved |-> FALSE, resolution |-> "null", resolved_at |-> -1,
     probability |-> Scale \div 2, total_stake |-> 0, active |-> TRUE]

\* The rows of bets for one (market_id, user_id): rows counts them, stake and
\* probability are those of the row getUserBet returns.
NoBet == [exists |-> FALSE, stake |-> 0, probability |-> 0, rows |-> 0]

\* ------------------------------------------------------ pure helpers
RECURSIVE SumOver(_, _)
SumOver(S, f) ==
    IF S = {} THEN 0
    ELSE LET x == CHOOSE y \in S : TRUE IN f[x] + SumOver(S \ {x}, f)

Max(a, b) == IF a > b THEN a ELSE b
Min(a, b) == IF a < b THEN a ELSE b

\* A non-negative quotient num/den stored in a DECIMAL column whose unit the
\* numerator is already expressed in: rounded to the nearest unit, half up.
RoundDiv(num, den) == (2 * num + den) \div (2 * den)

\* calculateStake without the upper bound.
calculateStakeNoCap(desired_amount) == Max(desired_amount, MinStake)

\* calculateStake without the lower bound.
calculateStakeNoFloor(desired_amount) == Min(desired_amount, MaxStake)

calculateStake(desired_amount) == Min(Max(desired_amount, MinStake), MaxStake)

\* was_capped: stake < desired_amount
wasCapped(stake, desired_amount) == stake < desired_amount

\* InvalidProbability without the check.
InvalidProbabilityNever(probability) == FALSE

\* probability < 0 || probability > 1
InvalidProbability(probability) == probability < 0 \/ probability > Scale

\* Expired without the check.
ExpiredNever(market, time) == FALSE

\* new Date() > new Date(market.deadline)
Expired(market, time) == time > market.deadline

\* NoParticipants without the check.
NoParticipantsNever(rows) == FALSE

\* NoParticipants that finds no bet whatever the rows.
NoParticipantsAlways(rows) == TRUE

\* bets.length === 0
NoParticipants(rows) == \A u \in Users : ~rows[u].exists

\* updateMarketProbability that divides by the total before the new stake.
updateMarketProbabilityOldTotal(current, new_stake, new_prob, old_stake, old_prob) ==
    LET current_total == SumOver(Users, [u \in Users |-> current[u].stake])
        weighted_sum ==
            SumOver(Users, [u \in Users |-> current[u].stake * current[u].probability])
            + new_stake * new_prob
    IN  IF current_total = 0 THEN <<new_prob, 1>>
        ELSE <<weighted_sum, current_total>>

\* updateMarketProbability whose first-bet case answers the default 0.5.
updateMarketProbabilityDefaultFirst(current, new_stake, new_prob, old_stake, old_prob) ==
    LET current_total == SumOver(Users, [u \in Users |-> current[u].stake])
        weighted_sum ==
            SumOver(Users, [u \in Users |-> current[u].stake * current[u].probability])
            + new_stake * new_prob
    IN  IF current_total = 0 THEN <<Scale \div 2, 1>>
        ELSE <<weighted_sum, current_total + new_stake>>

\* current: the rows passed as current_stakes/current_probs (a function from
\* users to bet rows, absent rows have stake 0).  The result is the pair
\* <<numerator, denominator>> of the quotient the code returns.
updateMarketProbability(current, new_stake, new_prob, old_stake, old_prob) ==
    LET current_total == SumOver(Users, [u \in Users |-> current[u].stake])
        new_total == current_total - old_stake + new_stake
        weighted_sum ==
            SumOver(Users, [u \in Users |-> current[u].stake * current[u].probability])
            - old_stake * old_prob + new_stake * new_prob
    IN  IF current_total = 0 THEN <<new_prob, 1>>
        ELSE IF new_total = 0 THEN <<Scale \div 2, 1>>
        ELSE <<weighted_sum, new_total>>

\* OtherBets without the filter: the user's own row stays among the others.
OtherBetsKeepOwn(all_bets, user_id) == all_bets

\* all_bets.filter(bet => bet.user_id !== user_id)
OtherBets(all_bets, user_id) ==
    [u \in Users |-> IF u = user_id THEN NoBet ELSE all_bets[u]]

\* placeBet of the database variant: the user's own bet is filtered out of
\* the bets passed on, and no old bet is taken off.
DatabaseNewProb(all_bets, user_id, stake, probability) ==
    updateMarketProbability(OtherBets(all_bets, user_id), stake, probability, 0, 0)

\* InMemoryNewProb that takes no old bet off.
InMemoryNewProbNoCorrection(all_bets, user_id, stake, probability) ==
    updateMarketProbability(all_bets, stake, probability, 0, 0)

\* placeBet of the in-memory variant: all the bets of the market are passed
\* on, the user's own included, and old_bet?.stake || 0 and
\* old_bet?.probability || 0 are taken off.
InMemoryNewProb(all_bets, user_id, stake, probability) ==
    LET old_bet == all_bets[user_id]
    IN  updateMarketProbability(all_bets, stake, probability,
            IF old_bet.exists THEN old_bet.stake ELSE 0,
            IF old_bet.exists THEN old_bet.probability ELSE 0)

\* market.totalStake = market.totalStake - old_stake + stake
InMemoryTotalStake(totalStake, old_stake, stake) == totalStake - old_stake + stake

\* AvailableBankroll that forgets the stakes already held.
AvailableBankrollUnstaked(user, old_bet) == user.bankroll

AvailableBankroll(user, old_bet) ==
    user.bankroll - user.total_staked + (IF old_bet.exists THEN old_bet.stake ELSE 0)

\* NewTotalStake that adds the stake without taking the old one off.
NewTotalStakeAccumulated(market_total_stake, old_stake, stake) ==
    market_total_stake + stake

NewTotalStake(market_total_stake, old_stake, stake) ==
    market_total_stake - old_stake + stake

\* NetStakeChange that ignores the old stake.
NetStakeChangeWhole(stake, old_stake) == stake

NetStakeChange(stake, old_stake) == stake - old_stake

StoredProbability(q) == RoundDiv(q[1], q[2])

\* The triples <<stake, probability, outcome>> at which the double-precision
\* product bet.stake * (1 + accuracy) falls just below the integer that the
\* exact product is (25 * 1.16 evaluates to 28.999999999999996), over the
\* stakes 1..100 and every probability a DECIMAL(5,4) column holds; accuracy
\* is parseFloat(p) for outcome TRUE and 1 - parseFloat(p) for FALSE.
FloatShortfall ==
    { <<25, 1600, TRUE>>, <<25, 6800, FALSE>>, <<45, 4000, TRUE>>,
      <<45, 6000, FALSE>>, <<50, 1600, TRUE>>, <<50, 6800, FALSE>>,
      <<50, 8200, TRUE>>, <<75, 3600, TRUE>>, <<75, 6400, FALSE>>,
      <<75, 6800, FALSE>>, <<85, 4000, TRUE>>, <<85, 6000, FALSE>>,
      <<90, 4000, TRUE>>, <<90, 6000, FALSE>>, <<100, 1300, TRUE>>,
      <<100, 1500, TRUE>>, <<100, 1600, TRUE>>, <<100, 5700, TRUE>>,
      <<100, 6800, FALSE>>, <<100, 8200, TRUE>>, <<100, 8500, FALSE>>,
      <<100, 8700, FALSE>>, <<100, 8900, FALSE>>, <<100, 9100, FALSE>>,
      <<100, 9300, FALSE>> }

\* outcome ? parseFloat(bet.probability) : (1 - parseFloat(bet.probability))
Accuracy(probability, outcome) ==
    IF outcome THEN probability ELSE Scale - probability

\* floor(stake * (1 + accuracy)) in exact arithmetic
ExactPayout(stake, probability, outcome) ==
    (stake * (Scale + Accuracy(probability, outcome))) \div Scale

\* A payout that takes the stake off instead of returning it.
PayoutLessStake(stake, probability, outcome) ==
    (stake * Accuracy(probability, outcome)) \div Scale - stake

\* Payout without the stake itself: floor(stake * accuracy).
PayoutWithoutStake(stake, probability, outcome) ==
    (stake * Accuracy(probability, outcome)) \div Scale

\* Math.floor(bet.stake * (1 + accuracy)) as the code evaluates it, in doubles
Payout(stake, probability, outcome) ==
    IF <<stake, probability, outcome>> \in FloatShortfall
    THEN ExactPayout(stake, probability, outcome) - 1
    ELSE ExactPayout(stake, probability, outcome)

\* upsertBet as a plain INSERT, without ON CONFLICT ... DO UPDATE.
insertBet(row, stake, probability) ==
    [exists |-> TRUE, stake |-> stake, probability |-> probability,
     rows |-> row.rows + 1]

\* INSERT INTO bets ... ON CONFLICT (market_id, user_id) DO UPDATE SET stake,
\* probability: one statement, which the database runs atomically.
upsertBet(row, stake, probability) ==
    [exists |-> TRUE, stake |-> stake, probability |-> probability,
     rows |-> IF row.exists THEN row.rows ELSE 1]

\* wasCorrect with 0.5 counted as correct.
wasCorrectOrEven(probability, outcome) ==
    \/ outcome /\ 2 * probability >= Scale
    \/ ~outcome /\ 2 * probability <= Scale

wasCorrect(probability, outcome) ==
    \/ outcome /\ 2 * probability > Scale
    \/ ~outcome /\ 2 * probability < Scale

\* LeaderboardStats with biggest_win overwritten by the latest payout.
LeaderboardStatsLastWin(user, bet, outcome) ==
    LET payout == Payout(bet.stake, bet.probability, outcome)
        newStreak == IF wasCorrect(bet.probability, outcome)
                     THEN user.prediction_streak + 1 ELSE 0
    IN  [total_profit |-> user.total_profit + (payout - bet.stake),
         biggest_win |-> payout,
         prediction_streak |-> newStreak,
         best_streak |-> Max(user.best_streak, newStreak)]

\* The leaderboard columns the second variant's payout callback writes:
\* profit = payout - bet.stake, newStreak, newBestStreak, newBiggestWin.
LeaderboardStats(user, bet, outcome) ==
    LET payout == Payout(bet.stake, bet.probability, outcome)
        newStreak == IF wasCorrect(bet.probability, outcome)
                     THEN user.prediction_streak + 1 ELSE 0
    IN  [total_profit |-> user.total_profit + (payout - bet.stake),
         biggest_win |-> Max(user.biggest_win, payout),
         prediction_streak |-> newStreak,
         best_streak |-> Max(user.best_streak, newStreak)]

\* PaidUser that does not count the settled bet in bets_placed.
PaidUserUncounted(user, bet, outcome) ==
    LET stats == LeaderboardStats(user, bet, outcome)
    IN  [user EXCEPT
            !.bankroll = user.bankroll + Payout(bet.stake, bet.probability, outcome),
            !.total_staked = user.total_staked - bet.stake,
            !.bets_won = user.bets_won
                + (IF wasCorrect(bet.probability, outcome) THEN 1 ELSE 0),
            !.total_profit = stats.total_profit,
            !.biggest_win = stats.biggest_win,
            !.prediction_streak = stats.prediction_streak,
            !.best_streak = stats.best_streak]

\* The row updateUser writes for one bet of a resolved market, from the user
\* row the payout callback read.
PaidUser(user, bet, outcome) ==
    LET newBetsWon == user.bets_won + (IF wasCorrect(bet.probability, outcome) THEN 1 ELSE 0)
        newBetsPlaced == user.bets_placed + 1
        stats == LeaderboardStats(user, bet, outcome)
    IN  [user EXCEPT
            !.bankroll = user.bankroll + Payout(bet.stake, bet.probability, outcome),
            !.total_staked = user.total_staked - bet.stake,
            !.bets_placed = newBetsPlaced,
            !.bets_won = newBetsWon,
            !.accuracy = RoundDiv(AccScale * newBetsWon, newBetsPlaced),
            !.total_profit = stats.total_profit,
            !.biggest_win = stats.biggest_win,
            !.prediction_streak = stats.prediction_streak,
            !.best_streak = stats.best_streak]

\* AlreadyResolved with the check left out.
AlreadyResolvedNever(market) == FALSE

AlreadyResolved(market) == market.resolved

\* IsAdmin that lets every user through.
IsAdminAnyone(user_id) == TRUE

IsAdmin(user_id) == user_id = ADMIN_USER_ID

\* The create branch's check of the deadline: deadline < new Date().
PastDeadline(deadline, time) == deadline < time

\* DuplicateId with the primary key of markets left out.
DuplicateIdNever(market) == FALSE

\* INSERT INTO markets fails on the primary key when the id is there already.
DuplicateId(market) == market.exists

\* UPDATE users SET markets_created = markets_created + 1 WHERE id = creator:
\* no row, no change.
CountMarket(user) ==
    IF user.exists THEN [user EXCEPT !.markets_created = @ + 1] ELSE user

\* The payout computation on its own: its inputs and, once applied, its result.
NoCalc == [phase |-> "none", stake |-> 0, probability |-> 0,
           outcome |-> FALSE, payout |-> 0,
           desired_amount |-> 0, was_capped |-> FALSE]

\* ------------------------------------------------------- handlers
\* One record per handler in flight: its position (pc), its arguments and the
\* values it holds in local variables between awaits.
NoTasks == [u \in Users |-> "none"]
NoRows == [u \in Users |-> NoBet]
NoUsers == [u \in Users |-> NoUser]

NoDb == <<[u \in Users |-> NoUser], [m \in MarketIds |-> NoMarket],
          [m \in MarketIds, u \in Users |-> NoBet]>>

\* db0 is the content of the tables when the handler was called.
Idle == [op |-> "none", pc |-> "idle", db0 |-> NoDb,
         market_id |-> 0, user_id |-> ADMIN_USER_ID,
         desired_amount |-> 0, probability |-> 0, outcome |-> FALSE,
         stake |-> 0, market_total_stake |-> 0, user |-> NoUser,
         old_stake |-> 0, new_prob |-> <<0, 1>>, new_total_stake |-> 0,
         rows |-> NoRows, task |-> NoTasks, task_user |-> NoUsers,
         pre_bet |-> NoBet, pre_probability |-> 0, pre_total_stake |-> 0]

\* What the handler that ended last answered.
NoResponse == [op |-> "none", result |-> "none"]

Response(r, res) ==
    [op |-> r.op, result |-> res]

Free(p) == procs[p].pc = "idle"
At(p, op, pc) == procs[p].op = op /\ procs[p].pc = pc

\* No handler is in flight.
Quiescent == \A p \in Procs : Free(p)

\* A new handler takes the first free slot (the slots are interchangeable).
Takes(p) == Free(p) /\ \A q \in Procs : q < p => ~Free(q)

\* The handler p goes on with the locals r / ends with the answer res.
Continue(p, r) == procs' = [procs EXCEPT ![p] = r] /\ last' = last
Return(p, r, res) == procs' = [procs EXCEPT ![p] = Idle] /\ last' = Response(r, res)

Init ==
    /\ users = [u \in Users |-> NoUser]
    /\ markets = [m \in MarketIds |-> NoMarket]
    /\ bets = [m \in MarketIds, u \in Users |-> NoBet]
    /\ now = 0
    /\ procs = [p \in Procs |-> Idle]
    /\ last = NoResponse
    /\ nops = 0
    /\ nfail = 0
    /\ paid = [m \in MarketIds, u \in Users |-> 0]
    /\ calc = NoCalc

\* The clock behind new Date() and Date.now().
Tick ==
    /\ now < MaxTime
    /\ now' = now + 1
    /\ UNCHANGED <<users, markets, bets, procs, last, nops, nfail, paid, calc>>

\* /predict create, from the command to its answer.  The id is
\* market_${Date.now()}; a deadline before the current time is refused; the
\* INSERT fails on an id already there; after the INSERT the creator's row,
\* if there is one, counts the market.
CreateMarket(creator, deadline) ==
    LET marketId == now
        result == IF PastDeadline(deadline, now) THEN "InvalidDeadline"
                  ELSE IF DuplicateId(markets[marketId]) THEN "DuplicateId"
                  ELSE "ok"
    IN  /\ markets' = IF result = "ok"
                      THEN [markets EXCEPT ![marketId] =
                                NewMarket(creator, now, deadline)]
                      ELSE markets
        /\ users' = IF result = "ok"
                    THEN [users EXCEPT ![creator] = CountMarket(@)]
                    ELSE users
        /\ last' = [op |-> "create", result |-> result]
        /\ UNCHANGED <<bets, now, procs, nops, nfail, paid, calc>>

\* A storage failure (a pool.query that rejects) may be injected while the
\* budget of failures lasts.
MayFail(fail) == fail => nfail < MaxFailures
CountFail(fail) == nfail' = IF fail THEN nfail + 1 ELSE nfail

\* ------------------------------------------------------- placeBet
\* The call: the probability is validated before the first await.
PlaceBetStart(p, market_id, user_id, desired_amount, probability) ==
    /\ Takes(p)
    /\ nops < MaxOps
    /\ nops' = nops + 1
    /\ LET r == [Idle EXCEPT !.op = "placeBet", !.pc = "getMarket", !.db0 = db,
                             !.market_id = market_id, !.user_id = user_id,
                             !.desired_amount = desired_amount,
                             !.probability = probability]
       IN  IF InvalidProbability(probability)
           THEN Return(p, r, "InvalidProbability")
           ELSE Continue(p, r)
    /\ UNCHANGED <<users, markets, bets, now, nfail, paid, calc>>

\* const market = await getMarket(market_id), the two checks on it, and
\* calculateStake
PlaceBetGetMarket(p) ==
    /\ At(p, "placeBet", "getMarket")
    /\ LET r == procs[p]
           market == markets[r.market_id]
       IN  IF ~market.exists \/ ~market.active
           THEN Return(p, r, "MarketNotFound")
           ELSE IF Expired(market, now)
           THEN Return(p, r, "MarketExpired")
           ELSE Continue(p, [r EXCEPT !.pc = "getUser",
                                      !.stake = calculateStake(r.desired_amount),
                                      !.market_total_stake = market.total_stake])
    /\ UNCHANGED <<users, markets, bets, now, nops, nfail, paid, calc>>

\* getUser: the SELECT
PlaceBetGetUser(p) ==
    /\ At(p, "placeBet", "getUser")
    /\ LET r == procs[p]
       IN  Continue(p, IF users[r.user_id].exists
                       THEN [r EXCEPT !.pc = "getUserBet", !.user = users[r.user_id]]
                       ELSE [r EXCEPT !.pc = "insertUser"])
    /\ UNCHANGED <<users, markets, bets, now, nops, nfail, paid, calc>>

\* getUser: the INSERT of a user the SELECT did not find; it fails on the
\* primary key when the row has appeared since.
PlaceBetInsertUser(p) ==
    /\ At(p, "placeBet", "insertUser")
    /\ LET r == procs[p]
       IN  IF users[r.user_id].exists
           THEN /\ Return(p, r, "DuplicateKey")
                /\ users' = users
           ELSE /\ Continue(p, [r EXCEPT !.pc = "getUserBet", !.user = NewUser])
                /\ users' = [users EXCEPT ![r.user_id] = NewUser]
    /\ UNCHANGED <<markets, bets, now, nops, nfail, paid, calc>>

\* const old_bet = await getUserBet(...) and the bankroll check
PlaceBetGetUserBet(p) ==
    /\ At(p, "placeBet", "getUserBet")
    /\ LET r == procs[p]
           old_bet == bets[r.market_id, r.user_id]
       IN  IF r.stake > AvailableBankroll(r.user, old_bet)
           THEN Return(p, r, "InsufficientBankroll")
           ELSE Continue(p, [r EXCEPT !.pc = "getMarketBets",
                        !.old_stake = IF old_bet.exists THEN old_bet.stake ELSE 0])
    /\ UNCHANGED <<users, markets, bets, now, nops, nfail, paid, calc>>

\* const all_bets = await getMarketBets(market_id), the new probability and
\* the new total stake
PlaceBetGetMarketBets(p) ==
    /\ At(p, "placeBet", "getMarketBets")
    /\ LET r == procs[p]
           all_bets == [u \in Users |-> bets[r.market_id, u]]
       IN  Continue(p, [r EXCEPT
                !.pc = "upsertBet",
                !.rows = all_bets,
                !.new_prob = DatabaseNewProb(
                    all_bets, r.user_id, r.stake, r.probability),
                !.new_total_stake = NewTotalStake(
                    r.market_total_stake, r.old_stake, r.stake)])
    /\ UNCHANGED <<users, markets, bets, now, nops, nfail, paid, calc>>

\* pool.query('BEGIN') and upsertBet.  The rows as they are now are kept as
\* pre_*: what a rollback restores, when it restores anything.  The
\* probability of a bet is given in units of 1/Scale, which the DECIMAL(5,4)
\* column stores as it is.
PlaceBetUpsertBet(p, fail) ==
    /\ At(p, "placeBet", "upsertBet")
    /\ MayFail(fail)
    /\ CountFail(fail)
    /\ LET r == procs[p]
           m == r.market_id
           u == r.user_id
       IN  IF fail
           THEN /\ Return(p, r, "PersistenceFailure")
                /\ bets' = bets
           ELSE /\ Continue(p, [r EXCEPT
                        !.pc = "updateMarket",
                        !.pre_bet = bets[m, u],
                        !.pre_probability = markets[m].probability,
                        !.pre_total_stake = markets[m].total_stake])
                /\ bets' = [bets EXCEPT ![m, u] =
                        upsertBet(bets[m, u], r.stake, r.probability)]
    /\ UNCHANGED <<users, markets, now, nops, paid, calc>>

\* updateMarket(market_id, {probability, total_stake}).  On a failure the
\* catch block sends ROLLBACK: pool.query hands every statement to whichever
\* pooled connection is free, so the ROLLBACK either reaches the connection
\* that carried the writes (undone) or another one, and the writes stay.
PlaceBetUpdateMarket(p, fail, undone) ==
    /\ At(p, "placeBet", "updateMarket")
    /\ MayFail(fail)
    /\ CountFail(fail)
    /\ LET r == procs[p]
           m == r.market_id
           u == r.user_id
       IN  IF fail
           THEN /\ Return(p, r, "PersistenceFailure")
                /\ bets' = IF undone THEN [bets EXCEPT ![m, u] = r.pre_bet] ELSE bets
                /\ markets' = markets
           ELSE /\ Continue(p, [r EXCEPT !.pc = "updateUser"])
                /\ bets' = bets
                /\ markets' = [markets EXCEPT
                        ![m].probability = StoredProbability(r.new_prob),
                        ![m].total_stake = r.new_total_stake]
    /\ UNCHANGED <<users, now, nops, paid, calc>>

\* updateUser(user_id, {total_staked}), pool.query('COMMIT') and the return
PlaceBetUpdateUser(p, fail, undone) ==
    /\ At(p, "placeBet", "updateUser")
    /\ MayFail(fail)
    /\ CountFail(fail)
    /\ LET r == procs[p]
           m == r.market_id
           u == r.user_id
       IN  IF fail
           THEN /\ Return(p, r, "PersistenceFailure")
                /\ bets' = IF undone THEN [bets EXCEPT ![m, u] = r.pre_bet] ELSE bets
                /\ markets' = IF undone
                              THEN [markets EXCEPT
                                      ![m].probability = r.pre_probability,
                                      ![m].total_stake = r.pre_total_stake]
                              ELSE markets
                /\ users' = users
           ELSE /\ Return(p, r, "ok")
                /\ bets' = bets
                /\ markets' = markets
                /\ users' = [users EXCEPT ![u].total_staked =
                        r.user.total_staked + NetStakeChange(r.stake, r.old_stake)]
    /\ UNCHANGED <<now, nops, paid, calc>>

\* -------------------------------------------- /predict resolve
\* The command: only the admin gets past the first check.
ResolveStart(p, caller, market_id, outcome) ==
    /\ Takes(p)
    /\ nops < MaxOps
    /\ nops' = nops + 1
    /\ LET r == [Idle EXCEPT !.op = "resolve", !.pc = "getMarket", !.db0 = db,
                             !.market_id = market_id, !.user_id = caller,
                             !.outcome = outcome]
       IN  IF ~IsAdmin(caller)
           THEN Return(p, r, "NotAdmin")
           ELSE Continue(p, r)
    /\ UNCHANGED <<users, markets, bets, now, nfail, paid, calc>>

\* const market = await getMarket(marketId) and the two checks on it
ResolveGetMarket(p) ==
    /\ At(p, "resolve", "getMarket")
    /\ LET r == procs[p]
           market == markets[r.market_id]
       IN  IF ~market.exists THEN Return(p, r, "MarketNotFound")
           ELSE IF AlreadyResolved(market) THEN Return(p, r, "AlreadyResolved")
           ELSE Continue(p, [r EXCEPT !.pc = "getMarketBets"])
    /\ UNCHANGED <<users, markets, bets, now, nops, nfail, paid, calc>>

\* const bets = await getMarketBets(marketId); bets.map starts one payout
\* callback per row, each suspended in its getUser.
ResolveGetMarketBets(p) ==
    /\ At(p, "resolve", "getMarketBets")
    /\ LET r == procs[p]
           rows == [u \in Users |-> bets[r.market_id, u]]
       IN  IF NoParticipants(rows)
           THEN Return(p, r, "NoParticipants")
           ELSE Continue(p, [r EXCEPT
                    !.pc = "payouts", !.rows = rows,
                    !.task = [u \in Users |->
                                IF rows[u].exists THEN "getUser" ELSE "none"]])
    /\ UNCHANGED <<users, markets, bets, now, nops, nfail, paid, calc>>

\* A payout callback's const user = await getUser(bet.user_id).  The user of
\* a bet row always exists (placeBet creates the user before the bet and
\* nothing deletes users), so the SELECT finds the row.
ResolveGetUser(p, u) ==
    /\ At(p, "resolve", "payouts")
    /\ procs[p].task[u] = "getUser"
    /\ users[u].exists
    /\ Continue(p, [procs[p] EXCEPT !.task[u] = "updateUser",
                                    !.task_user[u] = users[u]])
    /\ UNCHANGED <<users, markets, bets, now, nops, nfail, paid, calc>>

\* A payout callback's await updateUser(bet.user_id, {...}).  When it was the
\* last callback running and one of them has failed, Promise.all has
\* rejected and the handler ends in its catch block.
ResolveUpdateUser(p, u, fail) ==
    /\ At(p, "resolve", "payouts")
    /\ procs[p].task[u] = "updateUser"
    /\ MayFail(fail)
    /\ CountFail(fail)
    /\ LET r == procs[p]
           task == [r.task EXCEPT ![u] = IF fail THEN "failed" ELSE "done"]
       IN  /\ IF /\ \A v \in Users : task[v] \in {"none", "done", "failed"}
                 /\ \E v \in Users : task[v] = "failed"
              THEN Return(p, r, "PersistenceFailure")
              ELSE Continue(p, [r EXCEPT !.task = task])
           /\ users' = IF fail THEN users
                       ELSE [users EXCEPT ![u] =
                               PaidUser(r.task_user[u], r.rows[u], r.outcome)]
           /\ paid' = IF fail THEN paid
                      ELSE [paid EXCEPT ![r.market_id, u] = @ + 1]
    /\ UNCHANGED <<markets, bets, now, nops, calc>>

\* After Promise.all: updateMarket(marketId, {resolved, resolution, resolved_at})
ResolveUpdateMarket(p, fail) ==
    /\ At(p, "resolve", "payouts")
    /\ \A u \in Users : procs[p].task[u] \in {"none", "done"}
    /\ MayFail(fail)
    /\ CountFail(fail)
    /\ LET r == procs[p]
       IN  /\ Return(p, r, IF fail THEN "PersistenceFailure" ELSE "ok")
           /\ markets' = IF fail THEN markets
                         ELSE [markets EXCEPT
                                 ![r.market_id].resolved = TRUE,
                                 ![r.market_id].resolution =
                                     IF r.outcome THEN "true" ELSE "false",
                                 ![r.market_id].resolved_at = now]
    /\ UNCHANGED <<users, bets, now, nops, paid, calc>>

\* ------------------------------------------------- specifications
\* The clock and the create commands of the creators C.
Env(C) ==
    \/ Tick
    \/ \E creator \in C, deadline \in Deadlines : CreateMarket(creator, deadline)

\* With handlers run one at a time a market is created between two of them;
\* the clock moves at any time.
EnvSeq(C) ==
    \/ Tick
    \/ /\ Quiescent
       /\ \E creator \in C, deadline \in Deadlines :
             CreateMarket(creator, deadline)

\* The steps of placeBet, for the handlers P, the failure choices F, the
\* desired amounts D and the probabilities PR.
PlaceSteps(P, F, D, PR) ==
    \E p \in P :
        \/ \E m \in MarketIds, u \in Users, d \in D, pr \in PR :
              PlaceBetStart(p, m, u, d, pr)
        \/ PlaceBetGetMarket(p)
        \/ PlaceBetGetUser(p)
        \/ PlaceBetInsertUser(p)
        \/ PlaceBetGetUserBet(p)
        \/ PlaceBetGetMarketBets(p)
        \/ \E fail \in F : PlaceBetUpsertBet(p, fail)
        \/ \E fail \in F, undone \in BOOLEAN : PlaceBetUpdateMarket(p, fail, undone)
        \/ \E fail \in F, undone \in BOOLEAN : PlaceBetUpdateUser(p, fail, undone)

\* The steps of the resolve branch.
ResolveSteps(P, F) ==
    \E p \in P :
        \/ \E c \in Users, m \in MarketIds, o \in BOOLEAN : ResolveStart(p, c, m, o)
        \/ ResolveGetMarket(p)
        \/ ResolveGetMarketBets(p)
        \/ \E u \in Users : ResolveGetUser(p, u)
        \/ \E u \in Users, fail \in F : ResolveUpdateUser(p, u, fail)
        \/ \E fail \in F : ResolveUpdateMarket(p, fail)

\* In the specifications of handlers in flight together the markets are
\* created, and the clock set, before the first handler starts.
Setup == nops = 0 /\ Env({ADMIN_USER_ID})

\* One handler at a time, no storage failure.
NextSeq ==
    \/ EnvSeq(Users)
    \/ PlaceSteps({1}, {FALSE}, DesiredAmounts, Probabilities)
    \/ ResolveSteps({1}, {FALSE})
SpecSeq == Init /\ [][NextSeq]_vars

\* One handler at a time, storage failures included.
NextFail ==
    \/ EnvSeq({ADMIN_USER_ID})
    \/ PlaceSteps({1}, BOOLEAN, DesiredAmounts, Probabilities)
    \/ ResolveSteps({1}, BOOLEAN)
SpecFail == Init /\ [][NextFail]_vars

\* Placements in flight together, nothing else.
NextPlace ==
    \/ Setup
    \/ PlaceSteps(Procs, {FALSE}, {150}, Probabilities)
SpecPlace == Init /\ [][NextPlace]_vars

\* Handlers in flight together, no storage failure.
NextConc ==
    \/ Setup
    \/ PlaceSteps(Procs, {FALSE}, {150}, {8200})
    \/ ResolveSteps(Procs, {FALSE})
SpecConc == Init /\ [][NextConc]_vars

\* Handlers in flight together, storage failures included.
Next ==
    \/ Setup
    \/ PlaceSteps(Procs, BOOLEAN, {150}, {8200})
    \/ ResolveSteps(Procs, BOOLEAN)
Spec == Init /\ [][Next]_vars

\* One handler at a time, no storage failure, and a resolve that has started
\* goes on: every await of the resolve branch is a query that completes, and
\* the event loop runs the continuation of every completed await.
ResolveProgress(p) ==
    \/ ResolveGetMarket(p)
    \/ ResolveGetMarketBets(p)
    \/ \E u \in Users : ResolveGetUser(p, u)
    \/ \E u \in Users : ResolveUpdateUser(p, u, FALSE)
    \/ ResolveUpdateMarket(p, FALSE)

NextLive ==
    \/ EnvSeq({ADMIN_USER_ID})
    \/ PlaceSteps({1}, {FALSE}, {150}, Probabilities)
    \/ ResolveSteps({1}, {FALSE})
SpecLive == Init /\ [][NextLive]_vars /\ WF_vars(ResolveProgress(1))

\* The payout computation alone, over every stake a bet can have, the
\* probabilities k * 0.0025 and both outcomes.
PayoutProbabilities == {25 * k : k \in 0..(Scale \div 25)}

InitPayout ==
    /\ users = [u \in Users |-> NoUser]
    /\ markets = [m \in MarketIds |-> NoMarket]
    /\ bets = [m \in MarketIds, u \in Users |-> NoBet]
    /\ now = 0
    /\ procs = [p \in Procs |-> Idle]
    /\ last = NoResponse
    /\ nops = 0
    /\ nfail = 0
    /\ paid = [m \in MarketIds, u \in Users |-> 0]
    /\ calc \in [phase : {"in"}, stake : MinStake..MaxStake,
                 probability : PayoutProbabilities, outcome : BOOLEAN,
                 payout : {0}, desired_amount : {0}, was_capped : {FALSE}]

ComputePayout ==
    /\ calc.phase = "in"
    /\ calc' = [calc EXCEPT !.phase = "out",
                            !.payout = Payout(calc.stake, calc.probability, calc.outcome)]
    /\ UNCHANGED <<users, markets, bets, now, procs, last, nops, nfail, paid>>

SpecPayout == InitPayout /\ [][ComputePayout]_vars

\* The stake computation alone: calculateStake and was_capped over desired
\* amounts from below zero to well above the cap.
DesiredRange == (0 - MaxStake)..(11 * MaxStake)

InitStake ==
    /\ users = [u \in Users |-> NoUser]
    /\ markets = [m \in MarketIds |-> NoMarket]
    /\ bets = [m \in MarketIds, u \in Users |-> NoBet]
    /\ now = 0
    /\ procs = [p \in Procs |-> Idle]
    /\ last = NoResponse
    /\ nops = 0
    /\ nfail = 0
    /\ paid = [m \in MarketIds, u \in Users |-> 0]
    /\ calc \in [phase : {"in"}, stake : {0}, probability : {0},
                 outcome : {FALSE}, payout : {0},
                 desired_amount : DesiredRange, was_capped : {FALSE}]

ComputeStake ==
    /\ calc.phase = "in"
    /\ LET stake == calculateStake(calc.desired_amount)
       IN  calc' = [calc EXCEPT !.phase = "out", !.stake = stake,
                        !.was_capped = wasCapped(stake, calc.desired_amount)]
    /\ UNCHANGED <<users, markets, bets, now, procs, last, nops, nfail, paid>>

SpecStake == InitStake /\ [][ComputeStake]_vars

\* One handler at a time, for a user with a history: stakes held on markets
\* other than the modelled ones, up to the whole bankroll, or two bets already
\* settled (one lost, one won).  The probabilities include 0.5 and values
\* outside [0, 1].
Staked(total_staked) == [NewUser EXCEPT !.total_staked = total_staked]

Veteran ==
    LET bet == upsertBet(NoBet, MaxStake, 8200)
    IN  PaidUser(PaidUser(Staked(2 * MaxStake), bet, FALSE), bet, TRUE)

Histories ==
    {Staked(StartBankroll - MaxStake), Staked(StartBankroll - 10), Veteran}

HistProbabilities == {-1000, 5000, 8200, 12000}

\* The desired amounts include one below the smallest stake.
HistAmounts == DesiredAmounts \cup {-5}

InitHist ==
    /\ \E h \in Histories :
          users = [u \in Users |-> IF IsAdmin(u) THEN NoUser ELSE h]
    /\ markets = [m \in MarketIds |-> NoMarket]
    /\ bets = [m \in MarketIds, u \in Users |-> NoBet]
    /\ now = 0
    /\ procs = [p \in Procs |-> Idle]
    /\ last = NoResponse
    /\ nops = 0
    /\ nfail = 0
    /\ paid = [m \in MarketIds, u \in Users |-> 0]
    /\ calc = NoCalc

NextHist ==
    \/ EnvSeq({ADMIN_USER_ID})
    \/ PlaceSteps({1}, {FALSE}, HistAmounts, HistProbabilities)
    \/ ResolveSteps({1}, {FALSE})
SpecHist == InitHist /\ [][NextHist]_vars

\* The two probability computations side by side: the bets of market 0, a
\* user and a new stake and probability, given to the placeBet of the
\* database variant and to the placeBet of the in-memory variant.
EquivBets ==
    {NoBet, upsertBet(NoBet, MinStake, Scale \div 2),
     upsertBet(NoBet, 10, 2000), upsertBet(NoBet, MaxStake, 8200)}

EquivStakes == {MinStake, 3, 10, MaxStake}

EquivProbabilities == {0, 1000, 2000, 8200, Scale}

InitEquiv ==
    /\ users = [u \in Users |-> NoUser]
    /\ \E rows \in [Users -> EquivBets] :
          /\ bets = [m \in MarketIds, u \in Users |->
                        IF m = 0 THEN rows[u] ELSE NoBet]
          /\ markets = [m \in MarketIds |->
                IF m = 0
                THEN [NewMarket(ADMIN_USER_ID, 0, MaxTime) EXCEPT
                        !.total_stake = SumOver(Users, [u \in Users |-> rows[u].stake])]
                ELSE NoMarket]
    /\ now = 0
    /\ procs = [p \in Procs |-> Idle]
    /\ last = NoResponse
    /\ nops = 0
    /\ nfail = 0
    /\ paid = [m \in MarketIds, u \in Users |-> 0]
    /\ calc \in [phase : {"in"}, user_id : Users, stake : EquivStakes,
                 probability : EquivProbabilities,
                 database : {<<0, 1>>}, database_total : {0},
                 memory : {<<0, 1>>}, memory_total : {0}]

ComputeBoth ==
    /\ calc.phase = "in"
    /\ LET all_bets == [u \in Users |-> bets[0, u]]
           old_bet == all_bets[calc.user_id]
           old_stake == IF old_bet.exists THEN old_bet.stake ELSE 0
       IN  calc' = [calc EXCEPT
                !.phase = "out",
                !.database = DatabaseNewProb(
                    all_bets, calc.user_id, calc.stake, calc.probability),
                !.database_total = NewTotalStake(
                    markets[0].total_stake, old_stake, calc.stake),
                !.memory = InMemoryNewProb(
                    all_bets, calc.user_id, calc.stake, calc.probability),
                !.memory_total = InMemoryTotalStake(
                    markets[0].total_stake, old_stake, calc.stake)]
    /\ UNCHANGED <<users, markets, bets, now, procs, last, nops, nfail, paid>>

SpecEquiv == InitEquiv /\ [][ComputeBoth]_vars

\* The dispatch of /predict alone.  A command text is a sequence of words
\* (the text split at its single spaces, trimmed and in lower case); what
\* includes, startsWith and match look for falls inside one word, or, for
\* '% chance', in two adjacent words.
Words ==
    {"help", "resolve", "create", "bet", "info", "markets", "market_123",
     "yes", "75", "|", "50%", "chance"}

MaxWords == 3

Texts == UNION {[1..n -> Words] : n \in 0..MaxWords}

\* The words that include 'create', '|' and 'bet', and those that match
\* /market_\d+/.
IncludesCreate(word) == word = "create"
IncludesBar(word) == word = "|"
IncludesBet(word) == word = "bet"
MatchesMarketId(word) == word = "market_123"

IncludesPercentChance(text) ==
    \E i \in 1..(Len(text) - 1) : text[i] = "50%" /\ text[i + 1] = "chance"

\* text.startsWith(word + ' '): the text is trimmed, so a space is followed
\* by another word.
StartsWith(text, word) == Len(text) >= 2 /\ text[1] = word

\* The branch of app.command('/predict') that handles the text: the first of
\* the if statements, in their order, whose condition holds.
Dispatch(text) ==
    IF text = <<>> \/ text = <<"help">> THEN "help"
    ELSE IF StartsWith(text, "resolve") THEN "resolve"
    ELSE IF \/ \E i \in 1..Len(text) :
                  IncludesCreate(text[i]) \/ IncludesBar(text[i])
            \/ IncludesPercentChance(text)
         THEN "create"
    ELSE IF \E i \in 1..Len(text) :
                IncludesBet(text[i]) \/ MatchesMarketId(text[i])
         THEN "bet"
    ELSE IF text = <<"markets">> \/ text = <<"list">> THEN "markets"
    ELSE IF text = <<"stats">> \/ text = <<"me">> THEN "stats"
    ELSE IF StartsWith(text, "info") THEN "info"
    ELSE "unknown"

InitDispatch ==
    /\ users = [u \in Users |-> NoUser]
    /\ markets = [m \in MarketIds |-> NoMarket]
    /\ bets = [m \in MarketIds, u \in Users |-> NoBet]
    /\ now = 0
    /\ procs = [p \in Procs |-> Idle]
    /\ last = NoResponse
    /\ nops = 0
    /\ nfail = 0
    /\ paid = [m \in MarketIds, u \in Users |-> 0]
    /\ calc \in [phase : {"in"}, text : Texts, branch : {"none"}]

DispatchCommand ==
    /\ calc.phase = "in"
    /\ calc' = [calc EXCEPT !.phase = "out", !.branch = Dispatch(calc.text)]
    /\ UNCHANGED <<users, markets, bets, now, procs, last, nops, nfail, paid>>

SpecDispatch == InitDispatch /\ [][DispatchCommand]_vars

\* parseBetting's reading of the probability alone, for a probability
\* entered as a whole number: parseFloat, then prob > 1 ? prob / 100 : prob.
\* The result is in units of 1/Scale.
Percentages == 0..100

parseProbability(entered) ==
    IF entered > 1 THEN (entered * Scale) \div 100 ELSE entered * Scale

InitParse ==
    /\ users = [u \in Users |-> NoUser]
    /\ markets = [m \in MarketIds |-> NoMarket]
    /\ bets = [m \in MarketIds, u \in Users |-> NoBet]
    /\ now = 0
    /\ procs = [p \in Procs |-> Idle]
    /\ last = NoResponse
    /\ nops = 0
    /\ nfail = 0
    /\ paid = [m \in MarketIds, u \in Users |-> 0]
    /\ calc \in [phase : {"in"}, entered : Percentages, probability : {0}]

ParseCommand ==
    /\ calc.phase = "in"
    /\ calc' = [calc EXCEPT !.phase = "out",
                            !.probability = parseProbability(calc.entered)]
    /\ UNCHANGED <<users, markets, bets, now, procs, last, nops, nfail, paid>>

SpecParse == InitParse /\ [][ParseCommand]_vars

\* The markets listing alone, over tables of up to MaxListed markets, each
\* open or resolved and created at a time of its own.
ListLimit == 5

ListIds == 1..MaxListed

ListedMarkets ==
    {NoMarket}
    \cup {[NewMarket(ADMIN_USER_ID, 0, MaxTime) EXCEPT
              !.resolved = res,
              !.resolution = IF res THEN "true" ELSE "null"] : res \in BOOLEAN}

\* SELECT * FROM markets WHERE active = true AND resolved = false
OpenMarkets(table) ==
    {m \in DOMAIN table : table[m].exists /\ table[m].active /\ ~table[m].resolved}

\* ORDER BY created_at DESC
RECURSIVE NewestFirst(_, _)
NewestFirst(table, S) ==
    IF S = {} THEN <<>>
    ELSE LET m == CHOOSE x \in S :
                      \A y \in S : table[y].created_at <= table[x].created_at
         IN  <<m>> \o NewestFirst(table, S \ {m})

getActiveMarkets(table) == NewestFirst(table, OpenMarkets(table))

\* activeMarkets.slice(0, 5)
MarketList(activeMarkets) ==
    SubSeq(activeMarkets, 1, Min(ListLimit, Len(activeMarkets)))

InitList ==
    /\ users = [u \in Users |-> NoUser]
    /\ \E table \in [ListIds -> ListedMarkets] :
          markets = [m \in ListIds |->
                        IF table[m].exists
                        THEN [table[m] EXCEPT !.created_at = m]
                        ELSE table[m]]
    /\ bets = [m \in MarketIds, u \in Users |-> NoBet]
    /\ now = 0
    /\ procs = [p \in Procs |-> Idle]
    /\ last = NoResponse
    /\ nops = 0
    /\ nfail = 0
    /\ paid = [m \in MarketIds, u \in Users |-> 0]
    /\ calc = [phase |-> "in", shown |-> <<>>]

ListCommand ==
    /\ calc.phase = "in"
    /\ calc' = [calc EXCEPT !.phase = "out",
                            !.shown = MarketList(getActiveMarkets(markets))]
    /\ UNCHANGED <<users, markets, bets, now, procs, last, nops, nfail, paid>>

SpecList == InitList /\ [][ListCommand]_vars

\* ----------------------------------------------------- properties
HasBet(m, u) == bets[m, u].exists

\* The stake a user has on markets that are not resolved.
OpenStake(u) ==
    SumOver(MarketIds, [m \in MarketIds |->
        IF HasBet(m, u) /\ ~markets[m].resolved THEN bets[m, u].stake ELSE 0])

\* The sums over the bets stored for a market.
StakeSum(m) == SumOver(Users, [u \in Users |-> bets[m, u].stake])
WeightedSum(m) ==
    SumOver(Users, [u \in Users |-> bets[m, u].stake * bets[m, u].probability])
Bettors(m) == {u \in Users : HasBet(m, u)}

Abs(x) == IF x < 0 THEN -x ELSE x

\* C1: with handlers run one at a time, whenever none is in flight every
\* user's total_staked is the sum of the stakes of the user's bets on
\* unresolved markets.
C1_TotalStakedIsOpenStake ==
    Quiescent =>
        \A u \in Users : users[u].exists => users[u].total_staked = OpenStake(u)

\* C2: with placements in flight together, a user's total_staked never
\* exceeds the bankroll, and whenever no placement is in flight it is the sum
\* of the stakes of the user's open bets.
C2_SolvencyUnderConcurrency ==
    \A u \in Users :
        users[u].exists =>
            /\ users[u].total_staked <= users[u].bankroll
            /\ Quiescent => users[u].total_staked = OpenStake(u)

\* C3: a placeBet that fails at its market update or its user update leaves
\* the bet row, the market's probability and total_stake and the user's
\* total_staked as they were before it wrote anything.
C3_PlacementAllOrNothing ==
    [][\A p \in Procs :
          LET r == procs[p]
          IN  (/\ r.op = "placeBet"
               /\ r.pc \in {"updateMarket", "updateUser"}
               /\ procs'[p] = Idle
               /\ last'.result = "PersistenceFailure")
              => /\ bets'[r.market_id, r.user_id] = r.pre_bet
                 /\ markets'[r.market_id].probability = r.pre_probability
                 /\ markets'[r.market_id].total_stake = r.pre_total_stake
                 /\ users'[r.user_id].total_staked = r.user.total_staked]_vars

\* C4: resolution is all or nothing: whenever no handler is in flight, and so
\* also after a resolve that failed part-way, no bettor of a market has been
\* paid for it while the market is unresolved, and no market is resolved while
\* a bettor of it is unpaid.
C4_ResolutionAllOrNothing ==
    Quiescent =>
        \A m \in MarketIds : \A u \in Users :
            HasBet(m, u) => (paid[m, u] > 0 <=> markets[m].resolved)

\* C5: of resolves of one market in flight together only one pays: no bettor
\* is paid twice for a market.
C5_SingleResolution ==
    \A m \in MarketIds : \A u \in Users : paid[m, u] <= 1

\* C6: a resolve that finds its market resolved ends there, answering that
\* the market is already resolved, and writes nothing: users, markets and
\* bets are unchanged.
C6_ResolvedMarketRejected ==
    [][\A p \in Procs :
          (/\ At(p, "resolve", "getMarket")
           /\ markets[procs[p].market_id].exists
           /\ markets[procs[p].market_id].resolved
           /\ procs'[p] # procs[p])
          => /\ procs'[p] = Idle
             /\ last' = [op |-> "resolve", result |-> "AlreadyResolved"]
             /\ users' = users
             /\ markets' = markets
             /\ bets' = bets]_vars

\* C6 witness: a resolve has been rejected as already resolved.
C6_Witness ==
    /\ last = [op |-> "resolve", result |-> "AlreadyResolved"]
    /\ \E m \in MarketIds : markets[m].resolved /\ Bettors(m) # {}

\* C7: whenever no placement is in flight, a market's total_stake is the sum
\* of the stakes of the bets stored for it.
C7_TotalStakeIsSumOfBets ==
    Quiescent =>
        \A m \in MarketIds : markets[m].exists => markets[m].total_stake = StakeSum(m)

C9_PayoutIsExactFloor ==
    [][\A p \in Procs : \A u \in Users :
          (At(p, "resolve", "payouts") /\ paid'[procs[p].market_id, u] # paid[procs[p].market_id, u])
          => LET bet == bets[procs[p].market_id, u]
             IN  /\ users'[u].bankroll = users[u].bankroll
                        + ExactPayout(bet.stake, bet.probability, procs[p].outcome)
                 /\ users'[u].total_staked = users[u].total_staked - bet.stake
                 /\ paid'[procs[p].market_id, u] = 1]_vars

\* C10: the payout of a bet is at least its stake and at most twice it.
C10_PayoutBounds ==
    calc.phase = "out" =>
        calc.stake <= calc.payout /\ calc.payout <= 2 * calc.stake

\* C10 witness: the worst case, a bet at probability 0 on a YES outcome, is
\* paid its stake.
C10_Witness ==
    /\ calc.phase = "out"
    /\ calc.probability = 0
    /\ calc.outcome
    /\ calc.stake = MaxStake
    /\ calc.payout = calc.stake

\* The step ends the handler op of slot p: a handler in flight returns, or
\* a call returns before its first await.
EndsHandler(p, op) ==
    /\ last'.op = op
    /\ \/ procs[p].op = op /\ procs'[p] = Idle
       \/ Takes(p) /\ nops' = nops + 1 /\ procs' = procs

\* The tables as they were when the handler that takes this step was called.
PreCall(p) == IF Free(p) THEN db ELSE procs[p].db0

ValidationFailures == {"InvalidProbability", "MarketNotFound", "MarketExpired"}

\* C11: with handlers run one at a time, a placeBet by an existing user that
\* passes validation and whose clamped stake exceeds bankroll - total_staked
\* + stake of the user's bet on the market (all as of the call) ends with
\* InsufficientBankroll, and users, markets and bets are as before the call.
C11_InsufficientBankrollRejected ==
    [][\A p \in Procs :
          LET r == procs[p]
              pre == PreCall(p)
              stake == calculateStake(r.desired_amount)
          IN  (/\ ~Free(p) /\ EndsHandler(p, "placeBet")
               /\ last'.result \notin ValidationFailures
               /\ pre[1][r.user_id].exists
               /\ stake > pre[1][r.user_id].bankroll - pre[1][r.user_id].total_staked
                            + pre[3][r.market_id, r.user_id].stake)
              => /\ last'.result = "InsufficientBankroll"
                 /\ db' = pre]_vars

\* C11 witness: a placeBet was refused for insufficient bankroll.
C11_Witness ==
    /\ last = [op |-> "placeBet", result |-> "InsufficientBankroll"]
    /\ \E u \in Users :
          users[u].exists /\ users[u].bankroll - users[u].total_staked < MaxStake

\* C12: with handlers run one at a time, a placeBet by a user who has a bet
\* on the market and that passes validation succeeds whenever its stake is at
\* most bankroll - total_staked + old stake; when it succeeds the pair has one
\* bet row, with the new stake and probability, and total_staked has changed
\* by new stake - old stake.
C12_ReplaceNotAccumulate ==
    [][\A p \in Procs :
          LET r == procs[p]
              pre == PreCall(p)
              m == r.market_id
              u == r.user_id
              stake == calculateStake(r.desired_amount)
          IN  (/\ ~Free(p) /\ EndsHandler(p, "placeBet")
               /\ last'.result \notin ValidationFailures
               /\ pre[3][m, u].exists)
              => /\ stake <= pre[1][u].bankroll - pre[1][u].total_staked
                                + pre[3][m, u].stake
                    => last'.result = "ok"
                 /\ last'.result = "ok"
                    => /\ bets'[m, u] = [exists |-> TRUE, stake |-> stake,
                                         probability |-> r.probability, rows |-> 1]
                       /\ users'[u].total_staked =
                              pre[1][u].total_staked + stake - pre[3][m, u].stake]_vars

\* C12 witness: a replacement that the bankroll covers only because the old
\* stake counts as free is at its last step, the bet row already replaced by
\* one with another stake and another probability.
C12_Witness ==
    \E p \in Procs :
        LET r == procs[p]
            old == r.db0[3][r.market_id, r.user_id]
        IN  /\ At(p, "placeBet", "updateUser")
            /\ old.exists
            /\ r.stake > r.user.bankroll - r.user.total_staked
            /\ old.stake # r.stake
            /\ old.probability # r.probability
            /\ bets[r.market_id, r.user_id].stake = r.stake

\* C13: once a market is resolved no step changes its probability, its
\* total_stake, its resolution or any of its bets.
C13_ResolvedMarketImmutable ==
    [][\A m \in MarketIds :
          markets[m].resolved
          => /\ markets'[m].probability = markets[m].probability
             /\ markets'[m].total_stake = markets[m].total_stake
             /\ markets'[m].resolution = markets[m].resolution
             /\ \A u \in Users : bets'[m, u] = bets[m, u]]_vars

C15_OneBetPerUserAndMarket ==
    \A m \in MarketIds : \A u \in Users : bets[m, u].rows <= 1

\* C15 witness: two placements by one user on one market are in flight
\* together, both past their upsert.
C15_Witness ==
    \E p, q \in Procs :
        /\ p # q
        /\ procs[p].op = "placeBet" /\ procs[q].op = "placeBet"
        /\ procs[p].pc \in {"updateMarket", "updateUser"}
        /\ procs[q].pc \in {"updateMarket", "updateUser"}
        /\ procs[p].market_id = procs[q].market_id
        /\ procs[p].user_id = procs[q].user_id
        /\ bets[procs[p].market_id, procs[p].user_id].rows = 1

\* C16: a placeBet with a probability outside [0, 1] never gets past its
\* validation, and one whose market is missing, inactive or past its deadline
\* ends at the check of the market; a placeBet that ends with one of these
\* errors leaves users, markets and bets as they were before the call.
C16_ValidationFailureChangesNothing ==
    [][\A p \in Procs :
          LET r == procs[p]
              market == markets[r.market_id]
          IN  /\ procs'[p].op = "placeBet"
                 => procs'[p].probability >= 0 /\ procs'[p].probability <= Scale
              /\ (/\ At(p, "placeBet", "getMarket")
                  /\ procs'[p] # r
                  /\ (~market.exists \/ ~market.active \/ now > market.deadline))
                 => /\ procs'[p] = Idle
                    /\ last'.result \in {"MarketNotFound", "MarketExpired"}
              /\ (EndsHandler(p, "placeBet") /\ last'.result \in ValidationFailures)
                 => db' = PreCall(p)]_vars

\* C16 witness: a placeBet on a market past its deadline was refused.
C16_Witness ==
    /\ last = [op |-> "placeBet", result |-> "MarketExpired"]
    /\ \E m \in MarketIds : markets[m].exists /\ now > markets[m].deadline

\* The statistics a payout write gives a bettor, all but accuracy: u is paid
\* for the bet on the market that handler p resolves.
StatsUpdated(p, u) ==
    LET bet == bets[procs[p].market_id, u]
        correct == wasCorrect(bet.probability, procs[p].outcome)
        payout == Payout(bet.stake, bet.probability, procs[p].outcome)
        old == users[u]
        new == users'[u]
    IN  /\ new.bets_placed = old.bets_placed + 1
        /\ new.bets_won = old.bets_won + (IF correct THEN 1 ELSE 0)
        /\ new.total_profit = old.total_profit + payout - bet.stake
        /\ new.biggest_win = Max(old.biggest_win, payout)
        /\ new.prediction_streak = (IF correct THEN old.prediction_streak + 1 ELSE 0)
        /\ new.best_streak = Max(old.best_streak, new.prediction_streak)

PaysBet(p, u) ==
    /\ At(p, "resolve", "payouts")
    /\ paid'[procs[p].market_id, u] # paid[procs[p].market_id, u]

C18_EvenBetIsNotCorrect ==
    [][\A p \in Procs : \A u \in Users :
          LET bet == bets[procs[p].market_id, u]
          IN  (PaysBet(p, u) /\ 2 * bet.probability = Scale)
              => /\ users'[u].bets_placed = users[u].bets_placed + 1
                 /\ users'[u].bets_won = users[u].bets_won
                 /\ users'[u].prediction_streak = 0
                 /\ users'[u].bankroll = users[u].bankroll + (3 * bet.stake) \div 2]_vars

\* C18 witness: a bettor who had a streak has been paid for a bet at 0.5.
C18_Witness ==
    \E m \in MarketIds : \E u \in Users :
        /\ paid[m, u] = 1
        /\ 2 * bets[m, u].probability = Scale
        /\ users[u].best_streak > 0
        /\ users[u].prediction_streak = 0
        /\ users[u].bets_placed = 3

\* C19: with handlers run one at a time, a successful placeBet whose stake
\* and probability are those of the bet the user already has on the market
\* leaves the market's total_stake and probability and the user's
\* total_staked as they were before the call.
C19_IdenticalReplacementIdempotent ==
    [][\A p \in Procs :
          LET r == procs[p]
              pre == PreCall(p)
              m == r.market_id
              u == r.user_id
          IN  (/\ ~Free(p) /\ EndsHandler(p, "placeBet")
               /\ last'.result = "ok"
               /\ pre[3][m, u].exists
               /\ pre[3][m, u].stake = calculateStake(r.desired_amount)
               /\ pre[3][m, u].probability = r.probability)
              => /\ markets'[m].total_stake = pre[2][m].total_stake
                 /\ markets'[m].probability = pre[2][m].probability
                 /\ users'[u].total_staked = pre[1][u].total_staked]_vars

\* C19 witness: the replacement of a bet by an identical one, on a market
\* that holds another user's bet too, is at its last step.
C19_Witness ==
    \E p \in Procs :
        LET r == procs[p]
            old == r.db0[3][r.market_id, r.user_id]
        IN  /\ At(p, "placeBet", "updateUser")
            /\ old.exists
            /\ old.stake = r.stake
            /\ old.probability = r.probability
            /\ Cardinality(Bettors(r.market_id)) = 2
            /\ markets[r.market_id].total_stake = r.db0[2][r.market_id].total_stake

\* C20: the stake is the desired amount brought into MinStake..MaxStake
\* (0 gives 1, 50 gives 50, 1000 gives 100, -5 gives 1), and was_capped is
\* reported exactly when the desired amount is above the cap.
C20_StakeIsClamped ==
    calc.phase = "out" =>
        LET d == calc.desired_amount
        IN  /\ calc.stake = Max(MinStake, Min(d, MaxStake))
            /\ calc.stake = (IF d < MinStake THEN MinStake
                             ELSE IF d > MaxStake THEN MaxStake ELSE d)
            /\ calc.was_capped <=> d > MaxStake
            /\ d = 0 => calc.stake = 1
            /\ d = 50 => calc.stake = 50
            /\ d = 1000 => calc.stake = 100
            /\ d = -5 => calc.stake = 1

\* C20 witness: a desired amount of 1000 has been capped to 100.
C20_Witness ==
    /\ calc.phase = "out"
    /\ calc.desired_amount = 1000
    /\ calc.stake = MaxStake
    /\ calc.was_capped

\* ------------------------------------------------- market creation
\* A step of the create branch: it answers, and no handler slot moves.
CreateStep ==
    /\ procs' = procs
    /\ last'.op = "create"
    /\ last' # last \/ markets' # markets

\* C21: every market that exists has a deadline strictly later than the time
\* it was created at (a create request with deadline <= now is refused).
C21_DeadlineAfterCreation ==
    \A m \in MarketIds :
        markets[m].exists => markets[m].deadline > markets[m].created_at

\* C22: a successful createMarket leaves the creator with a user row whose
\* markets_created is one higher than before; a creator without a row before
\* the call has the default row with markets_created = 1 after it.
C22_CreatorCounted ==
    [][\A m \in MarketIds :
          (CreateStep /\ ~markets[m].exists /\ markets'[m].exists) =>
              LET c == markets'[m].creator
              IN  /\ users'[c].exists
                  /\ users'[c].markets_created = users[c].markets_created + 1
                  /\ ~users[c].exists =>
                         users'[c] = [NewUser EXCEPT !.markets_created = 1]]_vars

C24_ConcurrentGetUserSucceeds ==
    [][\A p \in Procs :
          (At(p, "placeBet", "insertUser") /\ procs'[p] # procs[p]) =>
              /\ procs'[p].pc = "getUserBet"
              /\ procs'[p].user = NewUser
              /\ users'[procs[p].user_id] = NewUser]_vars

\* C25: every bet stored has a whole stake from MinStake to MaxStake,
\* whatever desired amount placeBet was called with.
C25_StoredStakeInRange ==
    \A m \in MarketIds, u \in Users :
        bets[m, u].exists => bets[m, u].stake \in MinStake..MaxStake

\* C25 witness: a desired amount below the smallest stake and one above the
\* cap have both been stored, as MinStake and as MaxStake.
C25_Witness ==
    /\ \E m \in MarketIds, u \in Users :
          bets[m, u].exists /\ bets[m, u].stake = MinStake
    /\ \E m \in MarketIds, u \in Users :
          bets[m, u].exists /\ bets[m, u].stake = MaxStake
    /\ last = [op |-> "placeBet", result |-> "ok"]

\* C26: placements by different users on one market are not serialized.  A
\* placement that read the market's bets before another user's bet was
\* stored, and writes the market after it was, overwrites the market's
\* probability with the value of its own stale read (its own probability),
\* which differs from the stake-weighted mean of the bets then stored.
C26_StaleReadWins ==
    [][\A p \in Procs :
          LET r == procs[p]
              m == r.market_id
              u == r.user_id
          IN  ( /\ At(p, "placeBet", "updateMarket")
                /\ procs'[p].pc = "updateUser"
                /\ \A v \in Users \ {u} : ~r.rows[v].exists
                /\ \E v \in Users \ {u} :
                      /\ HasBet(m, v)
                      /\ bets[m, v].probability # r.probability )
              => /\ markets'[m].probability = r.probability
                 /\ markets'[m].probability * StakeSum(m) # WeightedSum(m)]_vars

\* C26 witness: two placements, by two users on one market, have both
\* completed, and the market holds the probability of one of the two bets,
\* not the mean of the two.
C26_Witness ==
    /\ Quiescent
    /\ nops = 2
    /\ last = [op |-> "placeBet", result |-> "ok"]
    /\ \E m \in MarketIds :
          /\ \A u \in Users : HasBet(m, u)
          /\ \E u, v \in Users : bets[m, u].probability # bets[m, v].probability
          /\ \E u \in Users : markets[m].probability = bets[m, u].probability
          /\ markets[m].probability * StakeSum(m) # WeightedSum(m)
          /\ markets[m].probability # RoundDiv(WeightedSum(m), StakeSum(m))

C28_OverlapKeepsBooks ==
    (Quiescent /\ nops = 2) =>
        \A m \in MarketIds : \A u \in Users :
            (markets[m].resolved /\ HasBet(m, u)) =>
                /\ users[u].total_staked = OpenStake(u)
                /\ users[u].bankroll = StartBankroll +
                       Payout(bets[m, u].stake, bets[m, u].probability,
                              markets[m].resolution = "true")

\* C29: no user's total_staked is ever negative, whatever placements and
\* resolutions were run, one at a time.
C29_TotalStakedNotNegative ==
    \A u \in Users : users[u].total_staked >= 0

\* C30: for every user total_profit equals bankroll - 1000, after any
\* placements and resolutions run one at a time from the default user.
C30_ProfitIsBankrollGain ==
    Quiescent =>
        \A u \in Users :
            users[u].exists =>
                users[u].total_profit = users[u].bankroll - StartBankroll

C32_FirstFailingCheckReported ==
    [][\A p \in Procs :
          LET r == procs[p]
              market == markets[r.market_id]
          IN  /\ (Takes(p) /\ nops' = nops + 1 /\ procs' = procs
                           /\ last'.op = "placeBet")
                 => last'.result = "InvalidProbability"
              /\ (Free(p) /\ procs'[p].op = "placeBet")
                 => /\ procs'[p].probability >= 0
                    /\ procs'[p].probability <= Scale
                    /\ procs'[p].pc = "getMarket"
              /\ (At(p, "placeBet", "getMarket") /\ procs'[p] # r)
                 => IF ~market.exists \/ ~market.active
                    THEN procs'[p] = Idle /\ last'.result = "MarketNotFound"
                    ELSE IF now > market.deadline
                    THEN procs'[p] = Idle /\ last'.result = "MarketExpired"
                    ELSE procs'[p].pc = "getUser"
              /\ (EndsHandler(p, "placeBet")
                    /\ last'.result = "InsufficientBankroll")
                 => /\ At(p, "placeBet", "getUserBet")
                    /\ r.probability >= 0 /\ r.probability <= Scale
                    /\ market.exists /\ market.active]_vars

\* C32 witness: a placeBet with a probability outside [0, 1] was called
\* while no market existed at all, and the probability error was reported.
C32_Witness ==
    /\ last = [op |-> "placeBet", result |-> "InvalidProbability"]
    /\ \A m \in MarketIds : ~markets[m].exists
    /\ nops > 0

C34_ResolveCompletes ==
    \A m \in MarketIds :
        ( /\ At(1, "resolve", "getMarket")
          /\ procs[1].market_id = m
          /\ procs[1].user_id = ADMIN_USER_ID
          /\ markets[m].exists
          /\ ~markets[m].resolved
          /\ \E u \in Users : HasBet(m, u) )
        ~> ( /\ Free(1)
             /\ last = [op |-> "resolve", result |-> "ok"]
             /\ markets[m].resolved
             /\ \A u \in Users : HasBet(m, u) => paid[m, u] = 1 )

\* C34 witness: a resolve has ended with the market resolved and both of its
\* bettors paid once.
C34_Witness ==
    /\ Quiescent
    /\ last = [op |-> "resolve", result |-> "ok"]
    /\ \E m \in MarketIds :
          /\ markets[m].resolved
          /\ \A u \in Users : HasBet(m, u) /\ paid[m, u] = 1

\* C35: the dispatch reaches the documented handler: for a market id of the
\* form market_<digits>, 'info <id>' is handled by the market-info branch
\* and 'resolve <id> yes|no' by the resolve branch.
C35_DispatchReachesHandler ==
    calc.phase = "out" =>
        \A id \in {w \in Words : MatchesMarketId(w)} :
            /\ calc.text = <<"info", id>> => calc.branch = "info"
            /\ calc.text \in {<<"resolve", id, "yes">>, <<"resolve", id, "no">>}
                   => calc.branch = "resolve"

\* C36: parseBetting maps a probability entered as a whole percentage n from
\* 0 to 100 to the probability n / 100.
C36_PercentageIsHundredth ==
    calc.phase = "out" => calc.probability * 100 = calc.entered * Scale

\* C37: the markets listing shows exactly the markets that are active and
\* not resolved, every one of them and no other, newest first.
C37_ListingShowsOpenMarkets ==
    calc.phase = "out" =>
        /\ {calc.shown[i] : i \in 1..Len(calc.shown)} = OpenMarkets(markets)
        /\ \A i, j \in 1..Len(calc.shown) :
              i < j => markets[calc.shown[i]].created_at
                           > markets[calc.shown[j]].created_at

\* The probabilities a placement computed the market's probability from: those
\* of the other users' bets it read and that of its own new bet.
ProbabilitiesRead(r) ==
    {r.rows[v].probability : v \in {v \in Users \ {r.user_id} : r.rows[v].exists}}
    \cup {r.probability}

\* C38: also with placements in flight together, the stored probability of
\* every market lies in [0, 1]; a market without bets has probability 0.5;
\* and the probability a placement writes lies between the smallest and the
\* largest probability among the bets it read to compute it.
C38_ProbabilityWithinBetsRead ==
    [][/\ \A m \in MarketIds :
             markets'[m].exists =>
                 /\ markets'[m].probability >= 0
                 /\ markets'[m].probability <= Scale
                 /\ (\A u \in Users : ~bets'[m, u].exists)
                        => markets'[m].probability = Scale \div 2
       /\ \A p \in Procs :
             LET r == procs[p]
                 written == markets'[r.market_id].probability
             IN  (At(p, "placeBet", "updateMarket") /\ procs'[p].pc = "updateUser")
                 => /\ \E lo \in ProbabilitiesRead(r) : lo <= written
                    /\ \E hi \in ProbabilitiesRead(r) : written <= hi]_vars

\* C38 witness: with another placement in flight, a placement that read the
\* other user's bet has written a probability strictly between that bet's
\* probability and its own.
C38_Witness ==
    \E p, q \in Procs :
        LET r == procs[p]
        IN  /\ p # q
            /\ At(p, "placeBet", "updateUser")
            /\ procs[q].op = "placeBet"
            /\ markets[r.market_id].probability = StoredProbability(r.new_prob)
            /\ \E lo, hi \in ProbabilitiesRead(r) :
                  /\ lo < markets[r.market_id].probability
                  /\ markets[r.market_id].probability < hi

\* The statistics of a user row are consistent, all but the value of accuracy
\* when bets were settled.
StatsConsistent(user) ==
    /\ 0 <= user.bets_won
    /\ user.bets_won <= user.bets_placed
    /\ 0 <= user.accuracy
    /\ user.accuracy <= AccScale
    /\ user.bets_placed = 0 => user.accuracy = AccScale \div 2
    /\ 0 <= user.prediction_streak
    /\ user.prediction_streak <= user.best_streak

====
